---- MODULE Spec2Model ----
(***************************************************************************)
(* Model of pcaudiolib-example (src/main.cpp): a raw PCM player that opens *)
(* a file, creates an audio device, opens a stream on it, copies the file  *)
(* to the stream chunk by chunk, drains and returns.                       *)
(*                                                                         *)
(* The program is single-threaded; pc is the position of main.  Every      *)
(* external call (C library, pcaudiolib) is appended to the trace `calls`  *)
(* together with its argument and its result, so that properties about     *)
(* the number and the order of the calls are state predicates.             *)
(***************************************************************************)
EXTENDS Integers, Sequences, FiniteSets, TLC

\* ---------------------------------------------------------------- bounds
MaxArgc == 3
MaxFileSize == 5
\* buffer_size_in_bytes is 88200 in main; the model runs main for every
\* capacity in 1..MaxCapacity, in the same unit (bytes) as the file size.
MaxCapacity == 3
\* backend error codes are ints; the model draws them from -MaxCode..MaxCode
MaxCode == 1

ErrorCodes == (0 - MaxCode)..MaxCode

Min(a, b) == IF a <= b THEN a ELSE b

VARIABLES
    pc,            \* position of main
    argc,          \* main's argc
    fileSize,      \* bytes in the file named by argv[1]
    capacity,      \* buffer_size_in_bytes
    filePos,       \* bytes of the file consumed by fread so far
    readError,     \* some fread ended on a read error (ferror would be set)
    test_file,     \* boni::file test_file: "unset", "null" or "open"/"closed"
    audio_device,  \* pcaudiolib::device audio_device: "unset", "null", "valid", "destroyed"
    read_count,    \* result of the last fread
    error_code,    \* argument error_code of the pending throw_if_error call
    calls,         \* trace of the external calls made so far
    out,           \* lines written to stdout
    err,           \* lines written to stderr
    exitStatus     \* "none" while running, then "success" or "failure"

vars == << pc, argc, fileSize, capacity, filePos, readError, test_file,
           audio_device, read_count, error_code, calls, out, err, exitStatus >>

\* One external call: the operation, the handle it was given ("none" for the
\* calls that take no device handle), its size or code argument, its result.
Call(op, h, arg, ret) == [op |-> op, h |-> h, arg |-> arg, ret |-> ret]

\* ------------------------------------------------------------------ Init
Init ==
    /\ pc = "main"
    /\ argc \in 1..MaxArgc
    /\ fileSize \in 0..MaxFileSize
    /\ capacity \in 1..MaxCapacity
    /\ filePos = 0
    /\ readError = FALSE
    /\ test_file = "unset"
    /\ audio_device = "unset"
    /\ read_count = 0
    /\ error_code = 0
    /\ calls = << >>
    /\ out = << >>
    /\ err = << >>
    /\ exitStatus = "none"

\* std::exit(status): the process ends here; destructors of main's automatic
\* objects (test_file, audio_device, audio_sink) are not run by std::exit.
std_exit(status) ==
    /\ exitStatus' = status
    /\ pc' = "exited"

\* main testing argc < 2 instead of argc != 2
CheckArgsTooFew ==
    /\ pc = "main"
    /\ IF argc < 2
       THEN /\ out' = Append(out, "usage")
            /\ std_exit("success")
       ELSE /\ pc' = "fopen"
            /\ UNCHANGED << out, exitStatus >>
    /\ UNCHANGED << argc, fileSize, capacity, filePos, readError, test_file,
                    audio_device, read_count, error_code, calls, err >>

\* main, lines 164-174: wrong argument count prints the usage and exits.
CheckArgs ==
    /\ pc = "main"
    /\ IF argc # 2
       THEN /\ out' = Append(out, "usage")
            /\ std_exit("success")
       ELSE /\ pc' = "fopen"
            /\ UNCHANGED << out, exitStatus >>
    /\ UNCHANGED << argc, fileSize, capacity, filePos, readError, test_file,
                    audio_device, read_count, error_code, calls, err >>


\* main without the null check of the file handle
OpenFileUnchecked ==
    /\ pc = "fopen"
    /\ \E ok \in BOOLEAN :
         /\ calls' = Append(calls, Call("fopen", "none", 0, IF ok THEN 0 ELSE 1))
         /\ test_file' = IF ok THEN "open" ELSE "null"
    /\ pc' = "create"
    /\ UNCHANGED << argc, fileSize, capacity, filePos, readError,
                    audio_device, read_count, error_code, out, err, exitStatus >>

\* main, lines 176-183: fopen, and the null check of the handle.
OpenFile ==
    /\ pc = "fopen"
    /\ \E ok \in BOOLEAN :
         /\ calls' = Append(calls, Call("fopen", "none", 0, IF ok THEN 0 ELSE 1))
         /\ test_file' = IF ok THEN "open" ELSE "null"
         /\ IF ~ok
            THEN /\ err' = err \o << "Unable to load: audio_filename", "perror" >>
                 /\ std_exit("failure")
            ELSE /\ pc' = "create"
                 /\ UNCHANGED << err, exitStatus >>
    /\ UNCHANGED << argc, fileSize, capacity, filePos, readError,
                    audio_device, read_count, error_code, out >>

\* main, lines 185-186: create_audio_device_object may return a null handle.
CreateDevice ==
    /\ pc = "create"
    /\ \E h \in {"null", "valid"} :
         /\ audio_device' = h
         /\ calls' = Append(calls, Call("create", "none", 0, IF h = "valid" THEN 0 ELSE 1))
    /\ pc' = "stream_ctor"
    /\ UNCHANGED << argc, fileSize, capacity, filePos, readError, test_file,
                    read_count, error_code, out, err, exitStatus >>


\* throw_if_error raising an exception that unwinds main: the destructors of
\* main's objects run from the stream's on.
throw_if_error_unwind(next) ==
    IF error_code # 0
    THEN /\ calls' = Append(calls, Call("strerror", audio_device, error_code, 0))
         /\ err' = Append(err, "audio_object_strerror")
         /\ pc' = "dtor_stream"
         /\ UNCHANGED exitStatus
    ELSE /\ pc' = next
         /\ UNCHANGED << calls, err, exitStatus >>

\* throw_if_error testing error_code > 0
throw_if_error_positive(next) ==
    IF error_code > 0
    THEN /\ calls' = Append(calls, Call("strerror", audio_device, error_code, 0))
         /\ err' = Append(err, "audio_object_strerror")
         /\ std_exit("failure")
    ELSE /\ pc' = next
         /\ UNCHANGED << calls, err, exitStatus >>

\* throw_if_error without the std::exit: it prints and returns
throw_if_error_noexit(next) ==
    IF error_code # 0
    THEN /\ calls' = Append(calls, Call("strerror", audio_device, error_code, 0))
         /\ err' = Append(err, "audio_object_strerror")
         /\ pc' = next
         /\ UNCHANGED exitStatus
    ELSE /\ pc' = next
         /\ UNCHANGED << calls, err, exitStatus >>

\* throw_if_error printing the error text before it tests the code
throw_if_error_noisy(next) ==
    /\ calls' = Append(calls, Call("strerror", audio_device, error_code, 0))
    /\ err' = Append(err, "audio_object_strerror")
    /\ IF error_code # 0
       THEN std_exit("failure")
       ELSE pc' = next /\ UNCHANGED exitStatus

\* throw_if_error, lines 62-71, called at position pc with the code held in
\* error_code; `next` is where the caller continues when it returns.
throw_if_error(next) ==
    IF error_code # 0
    THEN /\ calls' = Append(calls, Call("strerror", audio_device, error_code, 0))
         /\ err' = Append(err, "audio_object_strerror")
         /\ std_exit("failure")
    ELSE /\ pc' = next
         /\ UNCHANGED << calls, err, exitStatus >>

\* stream::stream, lines 143-145 and 152-156: audio_object_open on the device.
StreamOpen ==
    /\ pc = "stream_ctor"
    /\ \E rc \in ErrorCodes :
         /\ calls' = Append(calls, Call("open", audio_device, 0, rc))
         /\ error_code' = rc
    /\ pc' = "check_open"
    /\ UNCHANGED << argc, fileSize, capacity, filePos, readError, test_file,
                    audio_device, read_count, out, err, exitStatus >>


\* the stream constructor not checking the result of open
CheckOpenIgnored ==
    /\ pc = "check_open"
    /\ pc' = "fread"
    /\ UNCHANGED << argc, fileSize, capacity, filePos, readError, test_file,
                    audio_device, read_count, error_code, calls, out, err,
                    exitStatus >>

\* stream::stream, line 145: throw_if_error on the result of open.
CheckOpen ==
    /\ pc = "check_open"
    /\ throw_if_error("fread")
    /\ UNCHANGED << argc, fileSize, capacity, filePos, readError, test_file,
                    audio_device, read_count, error_code, out >>

\* main testing ferror after an empty read and treating a read error as fatal
FreadErrorFatal ==
    /\ pc = "fread"
    /\ LET want == Min(capacity, fileSize - filePos) IN
       \E n \in 0..want :
         /\ read_count' = n
         /\ filePos' = filePos + n
         /\ readError' = (readError \/ n < want)
         /\ calls' = Append(calls, Call("fread", "none", capacity, n))
         /\ IF n = 0 /\ want > 0
            THEN /\ err' = Append(err, "read error")
                 /\ std_exit("failure")
            ELSE /\ pc' = IF n <= 0 THEN "drain" ELSE "write"
                 /\ UNCHANGED << err, exitStatus >>
    /\ UNCHANGED << argc, fileSize, capacity, test_file, audio_device,
                    error_code, out >>

\* main, lines 199-206: one fread of up to buffer_size_in_bytes bytes, and the
\* test that ends the loop.  fread returns the full request (what is left of
\* the file, at most the capacity) unless a read error cuts it short.
Fread ==
    /\ pc = "fread"
    /\ LET want == Min(capacity, fileSize - filePos) IN
       \E n \in 0..want :
         /\ read_count' = n
         /\ filePos' = filePos + n
         /\ readError' = (readError \/ n < want)
         /\ calls' = Append(calls, Call("fread", "none", capacity, n))
         /\ pc' = IF n <= 0 THEN "drain" ELSE "write"
    /\ UNCHANGED << argc, fileSize, capacity, test_file, audio_device,
                    error_code, out, err, exitStatus >>


\* the write passing the buffer's capacity instead of read_count
WriteFullBuffer ==
    /\ pc = "write"
    /\ \E rc \in ErrorCodes :
         /\ calls' = Append(calls, Call("write", audio_device, capacity, rc))
         /\ error_code' = rc
    /\ pc' = "check_write"
    /\ UNCHANGED << argc, fileSize, capacity, filePos, readError, test_file,
                    audio_device, read_count, out, err, exitStatus >>

\* main, lines 207-209: audio_object_write of the read_count bytes just read.
Write ==
    /\ pc = "write"
    /\ \E rc \in ErrorCodes :
         /\ calls' = Append(calls, Call("write", audio_device, read_count, rc))
         /\ error_code' = rc
    /\ pc' = "check_write"
    /\ UNCHANGED << argc, fileSize, capacity, filePos, readError, test_file,
                    audio_device, read_count, out, err, exitStatus >>

\* main, line 207: throw_if_error on the result of write; back to fread.
CheckWrite ==
    /\ pc = "check_write"
    /\ throw_if_error("fread")
    /\ UNCHANGED << argc, fileSize, capacity, filePos, readError, test_file,
                    audio_device, read_count, error_code, out >>

\* main, lines 211-212: audio_object_drain.
Drain ==
    /\ pc = "drain"
    /\ \E rc \in ErrorCodes :
         /\ calls' = Append(calls, Call("drain", audio_device, 0, rc))
         /\ error_code' = rc
    /\ pc' = "check_drain"
    /\ UNCHANGED << argc, fileSize, capacity, filePos, readError, test_file,
                    audio_device, read_count, out, err, exitStatus >>

\* main, line 211: throw_if_error on the result of drain; then main's closing
\* brace, where the automatic objects are destroyed in reverse order.
CheckDrain ==
    /\ pc = "check_drain"
    /\ throw_if_error("dtor_stream")
    /\ UNCHANGED << argc, fileSize, capacity, filePos, readError, test_file,
                    audio_device, read_count, error_code, out >>

\* stream::~stream, lines 149 and 157: audio_object_close, unconditionally.
StreamClose ==
    /\ pc = "dtor_stream"
    /\ calls' = Append(calls, Call("close", audio_device, 0, 0))
    /\ pc' = "dtor_device"
    /\ UNCHANGED << argc, fileSize, capacity, filePos, readError, test_file,
                    audio_device, read_count, error_code, out, err, exitStatus >>

\* boni::auto_handle<device_deleter>::~auto_handle (boni.hpp): the deleter
\* audio_object_destroy runs on a non-null handle, nothing on a null one.
DeviceDestroy ==
    /\ pc = "dtor_device"
    /\ IF audio_device = "valid"
       THEN /\ calls' = Append(calls, Call("destroy", audio_device, 0, 0))
            /\ audio_device' = "destroyed"
       ELSE UNCHANGED << calls, audio_device >>
    /\ pc' = "dtor_file"
    /\ UNCHANGED << argc, fileSize, capacity, filePos, readError, test_file,
                    read_count, error_code, out, err, exitStatus >>

\* boni::file::~file (boni.hpp): fclose on a non-null FILE*.
FileClose ==
    /\ pc = "dtor_file"
    /\ IF test_file = "open"
       THEN /\ calls' = Append(calls, Call("fclose", "none", 0, 0))
            /\ test_file' = "closed"
       ELSE UNCHANGED << calls, test_file >>
    /\ pc' = "return"
    /\ UNCHANGED << argc, fileSize, capacity, filePos, readError,
                    audio_device, read_count, error_code, out, err, exitStatus >>

\* main, line 213: falling off the end of main returns 0.
ReturnFromMain ==
    /\ pc = "return"
    /\ std_exit("success")
    /\ UNCHANGED << argc, fileSize, capacity, filePos, readError, test_file,
                    audio_device, read_count, error_code, calls, out, err >>

Next ==
    \/ CheckArgs
    \/ OpenFile
    \/ CreateDevice
    \/ StreamOpen
    \/ CheckOpen
    \/ Fread
    \/ Write
    \/ CheckWrite
    \/ Drain
    \/ CheckDrain
    \/ StreamClose
    \/ DeviceDestroy
    \/ FileClose
    \/ ReturnFromMain

Spec == Init /\ [][Next]_vars

\* ------------------------------------------------- reading the call trace
BackendOps == {"open", "write", "drain", "close", "destroy"}

IndicesOf(op) == { i \in 1..Len(calls) : calls[i].op = op }
Count(op) == Cardinality(IndicesOf(op))
Succeeded(op) == { i \in IndicesOf(op) : calls[i].ret = 0 }
Failed(op) == { i \in IndicesOf(op) : calls[i].ret # 0 }

\* the byte counts of the audio_object_write calls, in call order
WriteSizes ==
    LET w == SelectSeq(calls, LAMBDA c : c.op = "write")
    IN  [ i \in 1..Len(w) |-> w[i].arg ]

Ceil(s, c) == (s + c - 1) \div c

\* the stream opened and every write and the drain returned 0, and main is over
CleanRun ==
    /\ pc = "exited"
    /\ Succeeded("open") # {}
    /\ Failed("write") = {}
    /\ Succeeded("drain") # {}

\* ceil(S / C) writes, all of C bytes but the last, which carries the rest;
\* one drain, after the last write
ChunkedPlayback ==
    /\ Len(WriteSizes) = Ceil(fileSize, capacity)
    /\ \A i \in 1..(Len(WriteSizes) - 1) : WriteSizes[i] = capacity
    /\ Len(WriteSizes) > 0 =>
         WriteSizes[Len(WriteSizes)] =
            IF fileSize % capacity = 0 THEN capacity ELSE fileSize % capacity
    /\ Count("drain") = 1
    /\ \A d \in IndicesOf("drain") : \A w \in IndicesOf("write") : w < d

ReleaseOps ==
    LET r == SelectSeq(calls, LAMBDA c : c.op \in {"close", "destroy", "fclose"})
    IN  [ i \in 1..Len(r) |-> r[i].op ]

\* the file was opened, a device handle was created and the stream was opened
AllAcquired ==
    /\ Succeeded("fopen") # {}
    /\ Succeeded("create") # {}
    /\ Succeeded("open") # {}

\* C2: whenever main's scope is left with the file, the device and the stream
\* acquired (after the drain, or on a fatal error of write or drain), the
\* releases made are close, then destroy, then the close of the file.
C2_ReverseOrderRelease ==
    (pc = "exited" /\ AllAcquired) => ReleaseOps = << "close", "destroy", "fclose" >>

\* C3: a run that opened the stream on a valid device has called
\* audio_object_open once and audio_object_close once when the process ends,
\* also when a later write or drain fails.
C3_OpenOnceCloseOnce ==
    (pc = "exited" /\ \E i \in Succeeded("open") : calls[i].h = "valid")
        => (Count("open") = 1 /\ Count("close") = 1)

\* C4: a run that created a device handle has called audio_object_destroy on
\* it exactly once when the process ends, on the normal and on the error path.
C4_DestroyOnce ==
    (pc = "exited" /\ Succeeded("create") # {}) => Count("destroy") = 1

\* C5: in every state, there are no more audio_object_close calls than
\* successful opens, no more audio_object_destroy calls than created devices,
\* and no more fclose calls than successful fopens (each acquisition is made
\* at most once, so each release is made at most once and never without its
\* acquisition).
C5_AtMostOneRelease ==
    /\ Cardinality(Succeeded("open")) <= 1
    /\ Cardinality(Succeeded("create")) <= 1
    /\ Cardinality(Succeeded("fopen")) <= 1
    /\ Count("close") <= Cardinality(Succeeded("open"))
    /\ Count("destroy") <= Cardinality(Succeeded("create"))
    /\ Count("fclose") <= Cardinality(Succeeded("fopen"))

\* main returned with each of the three resources released once
C5_Witness ==
    /\ pc = "exited"
    /\ exitStatus = "success"
    /\ ReleaseOps = << "close", "destroy", "fclose" >>

\* ------------------------------------------------------------ backend errors
\* C6: when the k-th write call returns a non-zero code, the writes before it
\* all succeeded, no write and no drain follows it, and the process ends with
\* one diagnostic line and failure status.
C6_WriteFailureIsFatal ==
    \A k \in Failed("write") :
        /\ \A i \in IndicesOf("write") : i < k => calls[i].ret = 0
        /\ \A i \in (k + 1)..Len(calls) : calls[i].op \notin {"write", "drain"}
        /\ pc \in {"check_write", "exited"}
        /\ pc = "exited" => (exitStatus = "failure" /\ err = << "audio_object_strerror" >>)

\* the second write failed after a first one that succeeded, and the process ended
C6_Witness ==
    /\ pc = "exited"
    /\ \E k \in Failed("write") :
          Cardinality({ i \in Succeeded("write") : i < k }) = 1

CheckPcs == {"check_open", "check_write", "check_drain"}

BackendCalls == SelectSeq(calls, LAMBDA c : c.op \in BackendOps)

C8_ZeroIsNoEffect ==
    [][ (pc \in CheckPcs /\ error_code = 0) =>
            /\ UNCHANGED << argc, fileSize, capacity, filePos, readError,
                            test_file, audio_device, read_count, error_code,
                            calls, out, err, exitStatus >>
            /\ pc' \notin {"exited", pc} ]_vars

\* open, two writes and the drain were all checked with code zero
C8_Witness ==
    /\ pc = "dtor_stream"
    /\ Count("write") = 2
    /\ err = << >>
    /\ exitStatus = "none"

\* C9: when fopen fails, stderr gets the line with the filename (and the
\* perror line), the process exits with failure status, and no backend call
\* is made: the fopen is the only call of the run.
C9_FopenFailure ==
    Failed("fopen") # {} =>
        /\ pc = "exited"
        /\ exitStatus = "failure"
        /\ err = << "Unable to load: audio_filename", "perror" >>
        /\ out = << >>
        /\ Len(calls) = 1

\* fopen failed
C9_Witness == test_file = "null" /\ Failed("fopen") # {}

\* C10: when audio_object_open returns a non-zero code, the process ends with
\* a diagnostic and failure status, and audio_object_close, audio_object_write
\* and audio_object_drain are never called.
C10_OpenFailure ==
    Failed("open") # {} =>
        /\ Count("close") = 0
        /\ Count("write") = 0
        /\ Count("drain") = 0
        /\ pc \in {"check_open", "exited"}
        /\ pc = "exited" => (exitStatus = "failure" /\ err = << "audio_object_strerror" >>)

\* the process ended after a failed open
C10_Witness == pc = "exited" /\ Failed("open") # {}

\* ------------------------------------------------------------- exit status
\* C11: the process exits with success status after playback (argc = 2) only
\* if the drain was called and returned 0 after an open and writes that all
\* returned 0; once open, a write or the drain has returned a non-zero code,
\* the process never goes on past the check of that code and exits with
\* failure status.
C11_SuccessOnlyAfterCleanDrain ==
    /\ (pc = "exited" /\ exitStatus = "success" /\ argc = 2) =>
          /\ Succeeded("drain") # {}
          /\ Succeeded("open") # {}
          /\ Failed("open") \cup Failed("write") \cup Failed("drain") = {}
          /\ \A d \in IndicesOf("drain") :
                \A i \in IndicesOf("open") \cup IndicesOf("write") : i < d
    /\ Failed("open") \cup Failed("write") \cup Failed("drain") # {} =>
          /\ pc \in CheckPcs \cup {"exited"}
          /\ pc = "exited" => exitStatus = "failure"

\* a run that played two chunks and exited with success status
C11_Witness ==
    /\ pc = "exited"
    /\ exitStatus = "success"
    /\ Count("write") = 2
    /\ Succeeded("drain") # {}

\* ------------------------------------------------------------------- usage
\* C12: when argc is not 2, main prints the usage text to stdout and exits
\* with success status, with no fopen and no backend call made in the run.
C12_UsageOnWrongArgc ==
    argc # 2 =>
        /\ pc \in {"main", "exited"}
        /\ calls = << >>
        /\ test_file = "unset"
        /\ audio_device = "unset"
        /\ err = << >>
        /\ pc = "exited" => (out = << "usage" >> /\ exitStatus = "success")

\* main exited on an argument count other than 2
C12_Witness == argc # 2 /\ pc = "exited"

\* ------------------------------------------------------- acquisition order
\* the calls are made in the order fopen, create_audio_device_object,
\* audio_object_open, each at most once and each after the one before it
AcquisitionCallOrder ==
    /\ Count("fopen") <= 1 /\ Count("create") <= 1 /\ Count("open") <= 1
    /\ \A i \in IndicesOf("create") : \E j \in Succeeded("fopen") : j < i
    /\ \A i \in IndicesOf("open") : \E j \in IndicesOf("create") : j < i

\* C13: create_audio_device_object is called only after a successful fopen,
\* audio_object_open is called only after the device was created (a non-null
\* handle was returned), and after a failed acquisition no later acquisition
\* is attempted.
C13_AcquisitionOrder ==
    /\ AcquisitionCallOrder
    /\ \A i \in IndicesOf("open") : \E j \in Succeeded("create") : j < i
    /\ Failed("fopen") # {} => (Count("create") = 0 /\ Count("open") = 0)
    /\ Failed("create") # {} => Count("open") = 0

\* ------------------------------------------------------------ playback loop
\* C14: every fread that returns n > 0 is followed at once by one
\* audio_object_write of exactly n bytes, whose code is checked (it is 0)
\* before the next fread; an fread that returns 0 is followed by no write but
\* by the drain, which is called at most once.
C14_ReadWriteAlternate ==
    /\ \A i \in IndicesOf("fread") :
          /\ calls[i - 1].op \in {"open", "write"}
          /\ calls[i - 1].ret = 0
          /\ IF calls[i].ret > 0
             THEN IF i = Len(calls)
                  THEN pc = "write"
                  ELSE /\ calls[i + 1].op = "write"
                       /\ calls[i + 1].arg = calls[i].ret
             ELSE /\ IF i = Len(calls)
                     THEN pc = "drain"
                     ELSE calls[i + 1].op = "drain"
                  /\ \A j \in IndicesOf("write") \cup IndicesOf("fread") : j <= i
    /\ \A j \in IndicesOf("write") :
          /\ calls[j - 1].op = "fread"
          /\ j = Len(calls) => pc \in {"check_write", "fread"}
          /\ (j = Len(calls) /\ pc = "fread") => calls[j].ret = 0
    /\ Count("drain") <= 1

\* three reads, the first two written, the third empty, then the drain
C14_Witness ==
    /\ Count("fread") = 3
    /\ Count("write") = 2
    /\ Count("drain") = 1
    /\ calls[Len(calls)].op = "drain"

\* ------------------------------------------------------------ stream state
\* C15: audio_object_write and audio_object_drain are called only after an
\* audio_object_open that returned 0 and before audio_object_close; close is
\* called at most once and no open, write or drain follows it; no backend
\* call on the device follows audio_object_destroy.
C15_CallsOnlyWhileOpen ==
    /\ \A i \in IndicesOf("write") \cup IndicesOf("drain") :
          /\ \E j \in Succeeded("open") : j < i
          /\ \A c \in IndicesOf("close") : i < c
    /\ Count("close") <= 1
    /\ \A c \in IndicesOf("close") : \A i \in (c + 1)..Len(calls) :
          calls[i].op \notin {"open", "write", "drain", "close"}
    /\ \A d \in IndicesOf("destroy") : \A i \in (d + 1)..Len(calls) :
          calls[i].op \notin BackendOps \cup {"strerror"}

\* a run on a valid device that wrote, drained, closed and destroyed
C15_Witness ==
    /\ pc = "exited"
    /\ Count("write") >= 1
    /\ Count("drain") = 1
    /\ Count("close") = 1
    /\ Count("destroy") = 1

\* ------------------------------------------------------------- null device
\* C16: no backend operation (open, write, drain, close, destroy) is ever
\* called with a null device handle: the stream is opened only on a valid
\* handle.
C16_NoCallOnNullHandle ==
    \A i \in 1..Len(calls) : calls[i].op \in BackendOps => calls[i].h # "null"

\* -------------------------------------------------------------- termination
\* main is one sequential thread and every call it makes returns: a step
\* that is possible is eventually taken.
FairSpec == Spec /\ WF_vars(Next)

FailedBackend == Failed("open") \cup Failed("write") \cup Failed("drain")

\* the loop is left only at the first fread that returns 0 (then the drain)
\* or by the exit of the process at the first non-zero backend code, which
\* is not retried; the loop makes at most `bound` freads
LoopEnds(bound) ==
    /\ Count("fread") <= bound
    /\ \A k \in FailedBackend :
          \/ k = Len(calls) /\ pc \in CheckPcs
          \/ k + 1 = Len(calls) /\ calls[k + 1].op = "strerror" /\ pc = "exited"
    /\ \A i \in IndicesOf("fread") :
          calls[i].ret = 0 => \A j \in IndicesOf("fread") : j <= i
    /\ \A d \in IndicesOf("drain") :
          calls[d - 1].op = "fread" /\ calls[d - 1].ret = 0
    /\ (pc = "exited" /\ Count("open") > 0) =>
          \/ FailedBackend # {}
          \/ Count("drain") = 1

\* C17 as stated: the program terminates, the loop ends only by an empty
\* read or a non-zero backend code, and it makes at most ceil(S / C) + 1 reads.
C17_Original ==
    /\ <>(pc = "exited")
    /\ [] LoopEnds(Ceil(fileSize, capacity) + 1)

\* C17, amended: the program terminates and the loop ends only by an empty
\* read or a non-zero backend code; it makes at most ceil(S / C) + 1 reads
\* when no fread is cut short by a read error, and at most S + 1 reads in
\* any case.
C17_Terminates ==
    /\ <>(pc = "exited")
    /\ [] LoopEnds(IF readError THEN fileSize + 1
                   ELSE Ceil(fileSize, capacity) + 1)

\* a run without read errors that made ceil(5 / 2) + 1 = 4 reads and ended
C17_Witness ==
    /\ pc = "exited"
    /\ ~readError
    /\ fileSize = 5
    /\ capacity = 2
    /\ Count("fread") = 4

\* --------------------------------------------------------------- read error
RECURSIVE SumSeq(_)
SumSeq(s) == IF s = << >> THEN 0 ELSE s[1] + SumSeq(Tail(s))

\* the last fread returned 0 before the end of the file: a read error
EmptyReadOnError ==
    /\ Count("fread") > 0
    /\ \E i \in IndicesOf("fread") : calls[i].ret = 0
    /\ filePos < fileSize

\* C18: an fread that returns 0 because of a read error ends the loop like
\* the end of input: nothing is written to stderr for it, the drain is called
\* once, the process exits with success status when the drain returns 0, and
\* the bytes written are the filePos bytes read before the error, fewer than
\* the file holds.
C18_ReadErrorLikeEof ==
    EmptyReadOnError =>
        /\ pc \in {"drain", "check_drain", "dtor_stream", "dtor_device",
                   "dtor_file", "return", "exited"}
        /\ pc # "drain" => Count("drain") = 1
        /\ Failed("drain") = {} => err = << >>
        /\ (pc = "exited" /\ Succeeded("drain") # {}) => exitStatus = "success"
        /\ Failed("write") = {}
        /\ SumSeq(WriteSizes) = filePos

\* a run that wrote one chunk, hit a read error and still exited with success
C18_Witness ==
    /\ EmptyReadOnError
    /\ pc = "exited"
    /\ exitStatus = "success"
    /\ Count("write") = 1
    /\ fileSize = 5
    /\ filePos = 2
====
